---- MODULE Spec2Model ----
(***************************************************************************)
(* Model of the hybrid router demo (src/hybrid_router_demo.py): the query  *)
(* complexity scorer, the cost helpers, the two inference wrappers, and    *)
(* the Streamlit session (ledger st.session_state.queries, sidebar         *)
(* statistics, Clear History, the three submit buttons).                   *)
(*                                                                         *)
(* Conventions.                                                            *)
(*  - Text (queries, responses, messages) is a TLA+ string; Len, SubSeq    *)
(*    and \o act on its characters.                                        *)
(*  - A score or weight is an integer number of hundredths (0.6 is 60).    *)
(*    The float sums of the code agree with the exact sums on which side   *)
(*    of 0.6, 0 and 1 they fall for every combination of rules.            *)
(*  - Money is an integer number of 1e-8 USD, so a price of p USD per 1M   *)
(*    tokens is 100*p units per token and 0.005 USD is 500000 units.       *)
(*  - A quotient of floats is the exact fraction [num, den].               *)
(*  - A Python dict is a record; a key the dict lacks is a field the       *)
(*    record lacks.  A call either returns a value or raises an exception. *)
(***************************************************************************)
EXTENDS Integers, Sequences, FiniteSets, TLC

VARIABLES
    queries,     \* st.session_state.queries: the ledger, oldest first
    total_cost,  \* st.session_state.total_cost
    stats,       \* the statistics names the last script run bound (lines
                 \* 407-429), or NoneVal when it was stopped before them
    analysis,    \* the analysis computed by the last script run, or NoneVal
    result,      \* the dispatch result of the last script run, or NoneVal
    last,        \* history: what the last script run was asked to do and did
    auto_idx,    \* history: the ledger positions appended by Auto Route runs
    arg,         \* unit level: the call under test
    ret          \* unit level: what the call returned or raised

vars == <<queries, total_cost, stats, analysis, result, last, auto_idx, arg, ret>>

NoneVal == [kind |-> "None"]

-----------------------------------------------------------------------------
(* Bounds of the model *)

\* a generated query is the concatenation of at most MaxParts fragments
MaxParts == 2
\* number of words of the padding fragment (more than 50, so two exceed 100)
PadWords == 51
\* the ledger is explored up to this many entries
MaxLedger == 2

-----------------------------------------------------------------------------
(* Text helpers: str.lower, str.split, str.count, the `in` operator *)

Char(s, i) == SubSeq(s, i, i)

\* str.lower() of one character: the cased characters up to U+00FF are the 26
\* capitals and the capitals U+00C0..U+00DE of Latin-1 (U+00D7 is a sign)
LowerChar(c) ==
    CASE c = "A" -> "a" [] c = "B" -> "b" [] c = "C" -> "c" [] c = "D" -> "d"
      [] c = "E" -> "e" [] c = "F" -> "f" [] c = "G" -> "g" [] c = "H" -> "h"
      [] c = "I" -> "i" [] c = "J" -> "j" [] c = "K" -> "k" [] c = "L" -> "l"
      [] c = "M" -> "m" [] c = "N" -> "n" [] c = "O" -> "o" [] c = "P" -> "p"
      [] c = "Q" -> "q" [] c = "R" -> "r" [] c = "S" -> "s" [] c = "T" -> "t"
      [] c = "U" -> "u" [] c = "V" -> "v" [] c = "W" -> "w" [] c = "X" -> "x"
      [] c = "Y" -> "y" [] c = "Z" -> "z"
      [] c = "À" -> "à" [] c = "Á" -> "á" [] c = "Â" -> "â" [] c = "Ã" -> "ã"
      [] c = "Ä" -> "ä" [] c = "Å" -> "å" [] c = "Æ" -> "æ" [] c = "Ç" -> "ç"
      [] c = "È" -> "è" [] c = "É" -> "é" [] c = "Ê" -> "ê" [] c = "Ë" -> "ë"
      [] c = "Ì" -> "ì" [] c = "Í" -> "í" [] c = "Î" -> "î" [] c = "Ï" -> "ï"
      [] c = "Ð" -> "ð" [] c = "Ñ" -> "ñ" [] c = "Ò" -> "ò" [] c = "Ó" -> "ó"
      [] c = "Ô" -> "ô" [] c = "Õ" -> "õ" [] c = "Ö" -> "ö" [] c = "Ø" -> "ø"
      [] c = "Ù" -> "ù" [] c = "Ú" -> "ú" [] c = "Û" -> "û" [] c = "Ü" -> "ü"
      [] c = "Ý" -> "ý" [] c = "Þ" -> "þ"
      [] OTHER -> c

\* the characters lo..hi of s in lower case (halving keeps the evaluation shallow)
RECURSIVE LowerRange(_, _, _)
LowerRange(s, lo, hi) ==
    IF lo > hi THEN ""
    ELSE IF lo = hi THEN LowerChar(Char(s, lo))
    ELSE LET mid == (lo + hi) \div 2
         IN  LowerRange(s, lo, mid) \o LowerRange(s, mid + 1, hi)

\* str.lower()
Lower(s) == LowerRange(s, 1, Len(s))

\* the characters str.split() and str.strip() treat as separators: those of
\* str.isspace() up to U+00FF, which are tab, line feed, vertical tab, form
\* feed, carriage return, U+001C..U+001F, the blank, U+0085 and the no-break
\* space U+00A0 (strings here hold no character above U+00FF)
WhitespaceChars ==
    {"\t", "\n", "", "\f", "\r", "", "", "", "", " ", "", " "}

IsSpace(c) == c \in WhitespaceChars

\* len(s.split()): the number of maximal runs of non-space characters
WordCount(s) ==
    Cardinality({i \in 1..Len(s) :
        /\ ~IsSpace(Char(s, i))
        /\ (i = 1 \/ IsSpace(Char(s, i - 1)))})

\* s.count(c) for a single character c
CountChar(s, c) == Cardinality({i \in 1..Len(s) : Char(s, i) = c})

\* a substring search that also accepts a needle cut off by the end of the text
ContainsPastEnd(needle, hay) ==
    \E i \in 0..Len(hay) :
        LET j == IF i + Len(needle) <= Len(hay) THEN i + Len(needle) ELSE Len(hay)
        IN  SubSeq(hay, i + 1, j) = SubSeq(needle, 1, j - i)

\* needle in hay
Contains(needle, hay) ==
    \E i \in 1..(Len(hay) - Len(needle) + 1) :
        SubSeq(hay, i, i + Len(needle) - 1) = needle

\* any(word in text for word in words)
AnyIn(words, text) == \E k \in 1..Len(words) : Contains(words[k], text)

-----------------------------------------------------------------------------
(* analyze_query_complexity *)

\* the routing threshold, in hundredths
Threshold == 60

complex_keywords == <<
    [keyword |-> "analyze deeply",         weight |-> 30],
    [keyword |-> "comprehensive analysis", weight |-> 30],
    [keyword |-> "compare and contrast",   weight |-> 25],
    [keyword |-> "detailed explanation",   weight |-> 20],
    [keyword |-> "critically evaluate",    weight |-> 25],
    [keyword |-> "strategic planning",     weight |-> 20],
    [keyword |-> "analyze",                weight |-> 15],
    [keyword |-> "compare",                weight |-> 15],
    [keyword |-> "explain",                weight |-> 10],
    [keyword |-> "evaluate",               weight |-> 15],
    [keyword |-> "multiple",               weight |-> 10],
    [keyword |-> "complex",                weight |-> 15],
    [keyword |-> "various",                weight |-> 10] >>

ExampleWords == << "step by step", "examples", "multiple examples" >>
SimpleWords == << "what is", "who is", "when did", "where is" >>

\* an accumulator is the pair of running score and factor list
Add(acc, weight, factor) ==
    [score |-> acc.score + weight, factors |-> Append(acc.factors, factor)]

\* length analysis
LengthRule(acc, query) ==
    LET word_count == WordCount(query) IN
    IF word_count > 100
    THEN Add(acc, 30, "Long query (" \o ToString(word_count) \o " words)")
    ELSE IF word_count > 50
    THEN Add(acc, 15, "Medium length (" \o ToString(word_count) \o " words)")
    ELSE acc

\* a keyword loop that stops at the first phrase that matches
RECURSIVE KeywordRuleFirstMatch(_, _, _)
KeywordRuleFirstMatch(acc, query_lower, k) ==
    IF k > Len(complex_keywords) THEN acc
    ELSE LET kw == complex_keywords[k] IN
         IF Contains(kw.keyword, query_lower)
         THEN Add(acc, kw.weight, "Complex keyword: '" \o kw.keyword \o "'")
         ELSE KeywordRuleFirstMatch(acc, query_lower, k + 1)

\* the loop over complex_keywords.items(), from entry k on
RECURSIVE KeywordRule(_, _, _)
KeywordRule(acc, query_lower, k) ==
    IF k > Len(complex_keywords) THEN acc
    ELSE LET kw == complex_keywords[k] IN
         KeywordRule(
            IF Contains(kw.keyword, query_lower)
            THEN Add(acc, kw.weight, "Complex keyword: '" \o kw.keyword \o "'")
            ELSE acc,
            query_lower, k + 1)

\* multiple questions
QuestionRule(acc, query) ==
    LET question_marks == CountChar(query, "?") IN
    IF question_marks > 2
    THEN Add(acc, 20, "Multiple questions (" \o ToString(question_marks) \o ")")
    ELSE IF question_marks > 1
    THEN Add(acc, 10, "Two questions")
    ELSE acc

\* request for examples or steps
ExampleRule(acc, query_lower) ==
    IF AnyIn(ExampleWords, query_lower)
    THEN Add(acc, 15, "Requests examples/steps")
    ELSE acc

\* simple indicators reduce the score
SimpleRule(acc, query_lower) ==
    IF AnyIn(SimpleWords, query_lower)
    THEN Add(acc, -10, "Simple question format")
    ELSE acc

\* the running sum and the factors just before the route is determined
RawAnalysis(query) ==
    LET query_lower == Lower(query)
        a1 == LengthRule([score |-> 0, factors |-> <<>>], query)
        a2 == KeywordRule(a1, query_lower, 1)
        a3 == QuestionRule(a2, query)
        a4 == ExampleRule(a3, query_lower)
    IN  SimpleRule(a4, query_lower)

RawScore(query) == RawAnalysis(query).score

Max(a, b) == IF a >= b THEN a ELSE b
Min(a, b) == IF a <= b THEN a ELSE b

\* a clamp that forgets the lower bound
ClampNoFloor(score) == Min(score, 100)

\* min(max(score, 0), 1)
Clamp(score) == Min(Max(score, 0), 100)

\* a route test with a strict comparison
RouteOfStrict(score) == IF score > Threshold THEN "cloud" ELSE "local"

\* "cloud" if score >= threshold else "local"
RouteOf(score) == IF score >= Threshold THEN "cloud" ELSE "local"

analyze_query_complexity(query) ==
    LET raw == RawAnalysis(query) IN
    [score     |-> Clamp(raw.score),
     factors   |-> raw.factors,
     route     |-> RouteOf(raw.score),
     threshold |-> Threshold]

-----------------------------------------------------------------------------
(* estimate_tokens, get_pricing, calculate_cost *)

\* len(text) // 4
estimate_tokens(text) == Len(text) \div 4

\* pricing in units of 1e-8 USD per token (100 times the USD price per 1M tokens)
CLOUD_MODELS ==
    [k \in {"Claude Sonnet 4", "Claude Opus 4", "GPT-4o", "GPT-4o Mini"} |->
        CASE k = "Claude Sonnet 4" ->
                [id |-> "claude-sonnet-4-20250514", provider |-> "anthropic",
                 pricing |-> [input |-> 300, output |-> 1500]]
          [] k = "Claude Opus 4" ->
                [id |-> "claude-opus-4-20250514", provider |-> "anthropic",
                 pricing |-> [input |-> 1500, output |-> 7500]]
          [] k = "GPT-4o" ->
                [id |-> "gpt-4o", provider |-> "openai",
                 pricing |-> [input |-> 250, output |-> 1000]]
          [] k = "GPT-4o Mini" ->
                [id |-> "gpt-4o-mini", provider |-> "openai",
                 pricing |-> [input |-> 15, output |-> 60]]]

FreePricing == [input |-> 0, output |-> 0]

get_pricing(model_key) ==
    IF model_key \in DOMAIN CLOUD_MODELS
    THEN CLOUD_MODELS[model_key].pricing
    ELSE FreePricing

\* input_tokens * pricing["input"] / 1_000_000 + output_tokens * pricing["output"] / 1_000_000
CostOf(input_tokens, output_tokens, pricing) ==
    input_tokens * pricing.input + output_tokens * pricing.output

\* the outcome of a call: a returned value or a raised exception
Returned(v) == [returned |-> TRUE, value |-> v]
Raised(cls, msg) == [returned |-> FALSE, exc |-> [cls |-> cls, msg |-> msg]]

\* the names bound at module level when a function body runs
ModuleGlobals ==
    {"st", "ollama", "anthropic", "openai", "time", "re", "subprocess", "datetime",
     "CLOUD_MODELS", "LOCAL_MODEL_INFO", "get_local_model_info",
     "get_available_local_models", "get_pricing", "analyze_query_complexity",
     "estimate_tokens", "calculate_cost", "local_inference", "cloud_inference"}

\* calculate_cost reads the global PRICING, which no statement of the module binds
calculate_cost(input_tokens, output_tokens, model) ==
    IF "PRICING" \notin ModuleGlobals
    THEN Raised("NameError", "name 'PRICING' is not defined")
    ELSE Returned(CostOf(input_tokens, output_tokens, get_pricing(model)))

-----------------------------------------------------------------------------
(* local_inference, cloud_inference *)

\* the exception classes a handler "except Exception" does not catch: those
\* that derive from BaseException and not from Exception; every other class
\* (the errors of the backends, KeyError, IndexError, TypeError, ValueError,
\* ZeroDivisionError, ...) derives from Exception and is caught
NotExceptionSubclasses ==
    {"BaseException", "BaseExceptionGroup", "GeneratorExit", "KeyboardInterrupt",
     "SystemExit", "CancelledError"}

\* a handler that catches only the errors the backend libraries declare
ExceptBackendErrorOnly(outcome, model) ==
    IF ~outcome.returned
       /\ outcome.exc.cls \in {"ResponseError", "APIConnectionError", "AuthenticationError"}
    THEN Returned([success |-> FALSE, error |-> outcome.exc.msg, model |-> model])
    ELSE outcome

\* except Exception as e: return {"success": False, "error": str(e), "model": model}
ExceptException(outcome, model) ==
    IF ~outcome.returned /\ outcome.exc.cls \notin NotExceptionSubclasses
    THEN Returned([success |-> FALSE, error |-> outcome.exc.msg, model |-> model])
    ELSE outcome

\* what ollama.chat can do: reply with a message, reply without one, or raise
LocalFaults ==
    {[kind |-> "raise", cls |-> "ResponseError",   msg |-> "model not found"],
     [kind |-> "raise", cls |-> "ConnectionError", msg |-> "connection refused"],
     [kind |-> "raise", cls |-> "AssertionError",  msg |-> ""]}

LocalReplies ==
    {[kind |-> "ok", content |-> "HIPAA is a US health privacy law."],
     [kind |-> "malformed"]}
    \cup LocalFaults

\* end_time - start_time, in seconds
ElapsedValues == {0, 2}

\* a local inference that prices its output tokens
TryLocalPriced(query, model, reply, elapsed) ==
    IF reply.kind = "raise" THEN Raised(reply.cls, reply.msg)
    ELSE IF reply.kind = "malformed" THEN Raised("KeyError", "'message'")
    ELSE LET response_text == reply.content IN
         IF elapsed = 0
         THEN Raised("ZeroDivisionError", "float division by zero")
         ELSE Returned(
                [success        |-> TRUE,
                 response       |-> response_text,
                 model          |-> model,
                 latency        |-> elapsed,
                 tokens_per_sec |-> [num |-> estimate_tokens(response_text),
                                     den |-> elapsed],
                 cost           |-> 15 * estimate_tokens(response_text),
                 input_tokens   |-> estimate_tokens(query),
                 output_tokens  |-> estimate_tokens(response_text)])

\* the body of the try statement of local_inference
TryLocal(query, model, reply, elapsed) ==
    IF reply.kind = "raise" THEN Raised(reply.cls, reply.msg)
    ELSE IF reply.kind = "malformed" THEN Raised("KeyError", "'message'")
    ELSE LET response_text == reply.content IN
         IF elapsed = 0
         THEN Raised("ZeroDivisionError", "float division by zero")
         ELSE Returned(
                [success        |-> TRUE,
                 response       |-> response_text,
                 model          |-> model,
                 latency        |-> elapsed,
                 tokens_per_sec |-> [num |-> estimate_tokens(response_text),
                                     den |-> elapsed],
                 cost           |-> 0,
                 input_tokens   |-> estimate_tokens(query),
                 output_tokens  |-> estimate_tokens(response_text)])

local_inference(query, model, reply, elapsed) ==
    ExceptException(TryLocal(query, model, reply, elapsed), model)

\* what a cloud client can do: reply with text and usage, reply with an empty
\* content list, raise from the request, or raise when the client object is
\* constructed (anthropic.Anthropic(), openai.OpenAI()), before any request
CloudFaults ==
    {[kind |-> "raise", cls |-> "APIConnectionError", msg |-> "Connection error."],
     [kind |-> "init_raise", cls |-> "OpenAIError",
      msg |-> "The api_key client option must be set"],
     [kind |-> "raise", cls |-> "TypeError",
      msg |-> "'NoneType' object is not subscriptable"],
     [kind |-> "raise", cls |-> "AssertionError",     msg |-> ""]}

CloudReplies ==
    {[kind |-> "ok", text |-> "A detailed comparison follows.",
      input_tokens |-> 12, output_tokens |-> 400],
     [kind |-> "ok", text |-> "", input_tokens |-> 0, output_tokens |-> 0],
     [kind |-> "malformed"]}
    \cup CloudFaults

\* the body of the try statement of cloud_inference
TryCloud(query, cloud_model_key, reply, elapsed) ==
    LET model_config == CLOUD_MODELS[cloud_model_key]
        model_id == model_config.id
        pricing == model_config.pricing
    IN
    IF reply.kind = "init_raise" THEN Raised(reply.cls, reply.msg)
    ELSE IF reply.kind = "raise" THEN Raised(reply.cls, reply.msg)
    ELSE IF reply.kind = "malformed"
    THEN Raised("IndexError", "list index out of range")
    ELSE LET response_text == reply.text
             input_tokens == reply.input_tokens
             output_tokens == reply.output_tokens
             cost == CostOf(input_tokens, output_tokens, pricing)
         IN Returned(
                [success       |-> TRUE,
                 response      |-> response_text,
                 model         |-> cloud_model_key \o " (" \o model_id \o ")",
                 latency       |-> elapsed,
                 cost          |-> cost,
                 input_tokens  |-> input_tokens,
                 output_tokens |-> output_tokens])

cloud_inference(query, cloud_model_key, reply, elapsed) ==
    IF cloud_model_key \notin DOMAIN CLOUD_MODELS
    THEN Returned([success |-> FALSE,
                   error   |-> "Unknown cloud model: " \o cloud_model_key,
                   model   |-> cloud_model_key])
    ELSE ExceptException(TryCloud(query, cloud_model_key, reply, elapsed),
                         cloud_model_key)

-----------------------------------------------------------------------------
(* get_available_local_models *)

RECURSIVE LStrip(_)
LStrip(s) == IF s # "" /\ IsSpace(Char(s, 1)) THEN LStrip(SubSeq(s, 2, Len(s))) ELSE s

RECURSIVE RStrip(_)
RStrip(s) ==
    IF s # "" /\ IsSpace(Char(s, Len(s))) THEN RStrip(SubSeq(s, 1, Len(s) - 1)) ELSE s

\* str.strip()
Strip(s) == LStrip(RStrip(s))

\* s.split('\n'), the line being read starting at character i
RECURSIVE SplitLines(_, _, _)
SplitLines(s, i, cur) ==
    IF i > Len(s) THEN << cur >>
    ELSE IF Char(s, i) = "\n" THEN << cur >> \o SplitLines(s, i + 1, "")
    ELSE SplitLines(s, i + 1, cur \o Char(s, i))

\* line.split()[0] of a line that is not blank
RECURSIVE TokenFrom(_, _)
TokenFrom(s, i) ==
    IF i > Len(s) \/ IsSpace(Char(s, i)) THEN "" ELSE Char(s, i) \o TokenFrom(s, i + 1)

FirstToken(line) == TokenFrom(LStrip(line), 1)

\* the loop over the lines after the header
RECURSIVE ModelNames(_, _)
ModelNames(lines, k) ==
    IF k > Len(lines) THEN <<>>
    ELSE (IF Strip(lines[k]) # "" THEN << FirstToken(lines[k]) >> ELSE <<>>)
         \o ModelNames(lines, k + 1)

\* what subprocess.run(["ollama", "list"], timeout=5) can do
CatalogRuns ==
    {[kind |-> "ok", returncode |-> 0,
      stdout |-> "NAME ID SIZE\ndeepseek-r1:7b 0a8c 4.7GB\nllama3:8b 365c 4.7GB\n"],
     [kind |-> "ok", returncode |-> 0, stdout |-> "NAME ID SIZE\n"],
     [kind |-> "ok", returncode |-> 1, stdout |-> ""],
     [kind |-> "raise", cls |-> "TimeoutExpired", msg |-> "Command '['ollama', 'list']' timed out after 5 seconds"],
     [kind |-> "raise", cls |-> "KeyboardInterrupt", msg |-> ""]}

\* the outcome of a call: the list returned, or the exception that the handler
\* "except Exception" of line 104 does not catch
get_available_local_models(run) ==
    IF run.kind = "raise"
    THEN IF run.cls \notin NotExceptionSubclasses
         THEN Returned(<< "Error: " \o run.msg >>)
         ELSE Raised(run.cls, run.msg)
    ELSE IF run.returncode = 0
    THEN LET all == SplitLines(Strip(run.stdout), 1, "")
             lines == SubSeq(all, 2, Len(all))
             models == ModelNames(lines, 1)
         IN  Returned(IF models # <<>> THEN models ELSE << "No models found" >>)
    ELSE Returned(<< "Error fetching models" >>)

-----------------------------------------------------------------------------
(* The Streamlit session: one action per script run *)

Range(f) == {f[i] : i \in DOMAIN f}

\* the rough average cost of a cloud query, 0.005 USD
AvgCloudCost == 500000

\* sum(1 for q in ledger if q['route'] == 'local')
RECURSIVE CountLocal(_, _)
CountLocal(ledger, k) ==
    IF k > Len(ledger) THEN 0
    ELSE (IF ledger[k].route = "local" THEN 1 ELSE 0) + CountLocal(ledger, k + 1)

\* sum(q.get('cost', 0) for q in ledger)
RECURSIVE SumCost(_, _)
SumCost(ledger, k) ==
    IF k > Len(ledger) THEN 0
    ELSE (IF "cost" \in DOMAIN ledger[k] THEN ledger[k].cost ELSE 0)
         + SumCost(ledger, k + 1)

\* statistics whose savings are the cost minus the all-cloud estimate
SessionStatisticsSignFlipped(ledger) ==
    LET total_queries == Len(ledger)
        local_queries == CountLocal(ledger, 1)
        cost == SumCost(ledger, 1)
        counts == [total_queries |-> total_queries,
                   local_queries |-> local_queries,
                   cloud_queries |-> total_queries - local_queries,
                   total_cost    |-> cost]
    IN  IF total_queries > 0
        THEN LET estimated_all_cloud == total_queries * AvgCloudCost
                 savings == cost - estimated_all_cloud
             IN  [total_queries |-> counts.total_queries,
                  local_queries |-> counts.local_queries,
                  cloud_queries |-> counts.cloud_queries,
                  total_cost    |-> counts.total_cost,
                  savings       |-> savings,
                  savings_pct   |-> IF estimated_all_cloud > 0
                                    THEN [num |-> savings * 100,
                                          den |-> estimated_all_cloud]
                                    ELSE [num |-> 0, den |-> 1]]
        ELSE counts

\* the sidebar: the counts and the total cost always, the savings only when
\* the ledger is not empty
SessionStatistics(ledger) ==
    LET total_queries == Len(ledger)
        local_queries == CountLocal(ledger, 1)
        cost == SumCost(ledger, 1)
        counts == [total_queries |-> total_queries,
                   local_queries |-> local_queries,
                   cloud_queries |-> total_queries - local_queries,
                   total_cost    |-> cost]
    IN  IF total_queries > 0
        THEN LET estimated_all_cloud == total_queries * AvgCloudCost
                 savings == estimated_all_cloud - cost
             IN  [total_queries |-> counts.total_queries,
                  local_queries |-> counts.local_queries,
                  cloud_queries |-> counts.cloud_queries,
                  total_cost    |-> counts.total_cost,
                  savings       |-> savings,
                  savings_pct   |-> IF estimated_all_cloud > 0
                                    THEN [num |-> savings * 100,
                                          den |-> estimated_all_cloud]
                                    ELSE [num |-> 0, den |-> 1]]
        ELSE counts

ZeroTotalCost == [local |-> 0, cloud |-> 0]

\* the texts typed into the query box
SessionQueries == {"", "What is HIPAA?", "Analyze deeply, step by step"}

\* the analysis of each session query
AnalysisOf == [q \in SessionQueries |-> analyze_query_complexity(q)]

\* the analysis a script run shows and uses: none for an empty query box
ShownAnalysis(query) == IF query # "" THEN AnalysisOf[query] ELSE NoneVal

\* which of the three buttons was pressed
Modes == {"auto", "force_local", "force_cloud"}

\* a route selection whose Auto Route ignores the scorer
SelectRouteIgnoresScorer(mode, scored) ==
    IF mode = "force_cloud" THEN "cloud" ELSE "local"

\* the route selection of the query processing
SelectRoute(mode, scored) ==
    IF mode = "force_local" THEN "local"
    ELSE IF mode = "force_cloud" THEN "cloud"
    ELSE scored.route

\* the models the local backend can serve; a request for any other name fails
InstalledModels == {"deepseek-r1:7b", "llama3:8b"}

LocalRepliesFor(model) ==
    IF model \in InstalledModels THEN LocalReplies ELSE LocalFaults

\* what the model catalog does during the session's script runs
SessionCatalogRuns ==
    {[kind |-> "ok", returncode |-> 0,
      stdout |-> "NAME ID SIZE\ndeepseek-r1:7b 0a8c 4.7GB\n"],
     [kind |-> "ok", returncode |-> 0, stdout |-> "NAME ID SIZE\n"]}

\* the local model select box: any option of the list the catalog produced
LocalSelections ==
    UNION {Range(get_available_local_models(run).value) : run \in SessionCatalogRuns}

\* the cloud model select box, as used in the session: one model per provider
CloudSelections == {"Claude Sonnet 4", "GPT-4o Mini"}

\* what the backends do during the session's script runs: a reply, a fault
\* with a message, a fault without one
SessionLocalReplies ==
    {r \in LocalReplies : r.kind = "ok" \/ (r.kind = "raise" /\ r.cls # "ConnectionError")}

SessionCloudReplies ==
    {r \in CloudReplies : \/ r.kind = "ok" /\ r.text # ""
                          \/ r.kind = "raise" /\ r.msg = ""
                          \/ r.kind = "init_raise"}

\* the dispatches a script run can make on the local route: the selected model
\* and what the backend and the clock do (the clock matters for a reply only)
LocalDispatches ==
    {d \in {[backend |-> "ollama", model |-> m, reply |-> r, elapsed |-> e] :
                m \in LocalSelections, r \in SessionLocalReplies, e \in ElapsedValues} :
        d.reply.kind = "ok" \/ d.elapsed # 0}

\* the dispatches a script run can make on the cloud route; a cloud round trip
\* takes a measurable time; in the session the first cloud model replies or
\* fails and the model of the other provider fails
CloudDispatches ==
    {d \in {[backend |-> CLOUD_MODELS[m].provider, model |-> m, reply |-> r,
             elapsed |-> e] :
                m \in CloudSelections, r \in SessionCloudReplies,
                e \in ElapsedValues \ {0}} :
        d.model = "Claude Sonnet 4" \/ d.reply.kind # "ok"}

DispatchesOf(route) == IF route = "local" THEN LocalDispatches ELSE CloudDispatches

\* the backend calls a dispatch makes: local_inference calls ollama.chat once
\* with the selected model; cloud_inference calls the client of the model's
\* provider once, and no client at all for a key that is not in CLOUD_MODELS
\* or when the construction of the client raises
BackendRequests(route, d) ==
    IF route = "local"
    THEN << [backend |-> "ollama", model |-> d.model] >>
    ELSE IF d.model \notin DOMAIN CLOUD_MODELS THEN <<>>
    ELSE IF d.reply.kind = "init_raise" THEN <<>>
    ELSE << [backend |-> CLOUD_MODELS[d.model].provider, model |-> d.model] >>

\* the order in which a script run scores, calls a backend and writes the
\* ledger: the routing panel scores a non-empty query; with a button pressed
\* the query processing scores again, dispatches, and appends or shows the error
RunSteps(query, pressed, requests, res) ==
    (IF query # "" THEN << "score" >> ELSE <<>>)
    \o (IF pressed
        THEN << "score" >> \o [i \in 1..Len(requests) |-> "request"]
             \o (IF res.success THEN << "append" >> ELSE << "error" >>)
        ELSE <<>>)

\* a dispatch that falls back to the cloud when the local backend fails
DispatchWithFallback(query, route, d) ==
    LET first == IF route = "local"
                 THEN local_inference(query, d.model, d.reply, d.elapsed)
                 ELSE cloud_inference(query, d.model, d.reply, d.elapsed)
    IN  IF route = "local" /\ first.returned /\ ~first.value.success
        THEN cloud_inference(query, "Claude Sonnet 4",
                             [kind |-> "ok", text |-> "A detailed comparison follows.",
                              input_tokens |-> 12, output_tokens |-> 400], 2)
        ELSE first

\* route == "local": local_inference(query, local_model), else cloud_inference
Dispatch(query, route, d) ==
    IF route = "local"
    THEN local_inference(query, d.model, d.reply, d.elapsed)
    ELSE cloud_inference(query, d.model, d.reply, d.elapsed)

\* the dict appended to st.session_state.queries (its timestamp, which nothing
\* reads, is left out)
LedgerEntry(query, route, res, scored) ==
    [query            |-> query,
     route            |-> route,
     model            |-> res.model,
     latency          |-> res.latency,
     cost             |-> res.cost,
     complexity_score |-> scored.score]

\* a script run with no button pressed: the sidebar and the analysis are redrawn.
\* The run that st.rerun() starts after a Clear History is such a run; it is
\* recorded with the number of entries that Clear History discarded.
Refresh(query) ==
    /\ stats' = SessionStatistics(queries)
    /\ analysis' = ShownAnalysis(query)
    /\ result' = NoneVal
    /\ last' = [op |-> "rerun", query |-> query, mode |-> "none", route |-> "none",
                requests |-> <<>>,
                discarded |-> IF last.op = "clear" THEN last.discarded ELSE 0,
                steps |-> RunSteps(query, FALSE, <<>>, NoneVal)]
    /\ UNCHANGED <<queries, total_cost, auto_idx>>

Rerun == \E query \in SessionQueries : Refresh(query) /\ UNCHANGED <<arg, ret>>

\* no button is pressed in the run that st.rerun() starts: a run with a
\* button pressed never follows a Clear History directly
ButtonRunPossible == last.op # "clear"

\* a Clear History that takes only the newest entry off the ledger
ClearHistoryDropsLast ==
    /\ ButtonRunPossible
    /\ queries' = IF queries = <<>> THEN <<>> ELSE SubSeq(queries, 1, Len(queries) - 1)
    /\ total_cost' = ZeroTotalCost
    /\ stats' = SessionStatistics(queries)
    /\ analysis' = NoneVal
    /\ result' = NoneVal
    /\ last' = [op |-> "clear", query |-> "", mode |-> "none",
                route |-> "none", requests |-> <<>>, discarded |-> Len(queries),
                steps |-> <<>>]
    /\ auto_idx' = {}
    /\ UNCHANGED <<arg, ret>>

\* the script run in which Clear History is pressed: the sidebar statistics
\* were computed from the ledger as it was (lines 407-431), then the ledger is
\* replaced by an empty list and st.rerun() ends the run, before the query box
\* and the routing panel. The run st.rerun() starts is the next step.
ClearHistory ==
    /\ ButtonRunPossible
    /\ queries' = <<>>
    /\ total_cost' = ZeroTotalCost
    /\ stats' = SessionStatistics(queries)
    /\ analysis' = NoneVal
    /\ result' = NoneVal
    /\ last' = [op |-> "clear", query |-> "", mode |-> "none",
                route |-> "none", requests |-> <<>>, discarded |-> Len(queries),
                steps |-> <<>>]
    /\ auto_idx' = {}
    /\ UNCHANGED <<arg, ret>>

\* a result handling that puts the new entry in front of the ledger
HandleResultPrepend(query, route, res, scored) ==
    IF res.success
    THEN queries' = << LedgerEntry(query, route, res, scored) >> \o queries
    ELSE queries' = queries

\* what the query processing does with the result: append on success, show
\* the error otherwise
HandleResult(query, route, res, scored) ==
    IF res.success
    THEN queries' = Append(queries, LedgerEntry(query, route, res, scored))
    ELSE queries' = queries

\* a script run with one of the three buttons pressed
Submit ==
    \E query \in SessionQueries \ {""}, mode \in Modes :
        LET scored == AnalysisOf[query]
            route == SelectRoute(mode, scored)
        IN  \E d \in DispatchesOf(route) :
                LET call == Dispatch(query, route, d) IN
                /\ ButtonRunPossible
                /\ route = "local" => d.reply \in LocalRepliesFor(d.model)
                /\ call.returned
                /\ call.value.success => Len(queries) < MaxLedger
                /\ stats' = SessionStatistics(queries)
                /\ analysis' = scored
                /\ result' = call.value
                /\ HandleResult(query, route, call.value, scored)
                /\ auto_idx' = IF call.value.success /\ mode = "auto"
                               THEN auto_idx \cup {Len(queries) + 1}
                               ELSE auto_idx
                /\ last' = [op |-> "submit", query |-> query, mode |-> mode,
                            route |-> route,
                            requests |-> BackendRequests(route, d),
                            discarded |-> 0,
                            steps |-> RunSteps(query, TRUE, BackendRequests(route, d),
                                               call.value)]
                /\ UNCHANGED <<total_cost, arg, ret>>

Init ==
    /\ queries = <<>>
    /\ total_cost = ZeroTotalCost
    /\ stats = SessionStatistics(<<>>)
    /\ analysis = NoneVal
    /\ result = NoneVal
    /\ last = [op |-> "start", query |-> "", mode |-> "none", route |-> "none",
               requests |-> <<>>, discarded |-> 0, steps |-> <<>>]
    /\ auto_idx = {}
    /\ arg = NoneVal
    /\ ret = NoneVal

\* the st.* calls at which a script run can be stopped when a widget event
\* arrives during the run:
\*   "top"      before the session statistics (up to the header of line 405)
\*   "counts"   at lines 411-418, the three counts computed
\*   "cost"     at line 421, the total cost computed too
\*   "sidebar"  after the statistics block, at the Clear History button
\*   "input"    at the submit buttons, the query box read and nothing scored
\*   "panel"    in the routing panel, the query scored for display
\*   "route"    after the route was selected
\*   "dispatch" at the end of the spinner block, the backend call returned
StopPoints == {"top", "counts", "cost", "sidebar", "input", "panel", "route", "dispatch"}

\* the stop points that come before the query box is read
BeforeQueryBox == {"top", "counts", "cost", "sidebar"}

\* the statistics a script run has computed when it is stopped at a point:
\* the names bound so far among total_queries, local_queries, cloud_queries
\* (407-409), total_cost (420) and savings, savings_pct (424-429)
StatisticsUpTo(ledger, point) ==
    LET full == SessionStatistics(ledger)
        counts == [total_queries |-> full.total_queries,
                   local_queries |-> full.local_queries,
                   cloud_queries |-> full.cloud_queries]
    IN  IF point = "top" THEN NoneVal
        ELSE IF point = "counts" THEN counts
        ELSE IF point = "cost" THEN [f \in {"total_queries", "local_queries",
                                            "cloud_queries", "total_cost"} |-> full[f]]
        ELSE full

\* the part of the order of a full run that a stopped run has gone through
StoppedSteps(query, point, requests) ==
    IF point \in BeforeQueryBox \cup {"input"} THEN <<>>
    ELSE (IF query # "" THEN << "score" >> ELSE <<>>)
         \o (IF point \in {"route", "dispatch"}
             THEN << "score" >> \o [i \in 1..Len(requests) |-> "request"]
             ELSE <<>>)

\* a script run that is stopped before the query processing; a run stopped
\* before the query box has read no query
StoppedBeforeProcessing ==
    \E query \in SessionQueries, point \in BeforeQueryBox \cup {"input", "panel"} :
        /\ point \in BeforeQueryBox => query = ""
        /\ stats' = StatisticsUpTo(queries, point)
        /\ analysis' = IF point = "panel" THEN ShownAnalysis(query) ELSE NoneVal
        /\ result' = NoneVal
        /\ last' = [op |-> "stopped", query |-> query, mode |-> "none",
                    route |-> "none", requests |-> <<>>, discarded |-> 0,
                    steps |-> StoppedSteps(query, point, <<>>)]
        /\ UNCHANGED <<queries, total_cost, auto_idx, arg, ret>>

\* a script run with a button pressed that is stopped after the route was
\* selected and before the dispatch
StoppedBeforeDispatch ==
    \E query \in SessionQueries \ {""}, mode \in Modes :
        LET scored == AnalysisOf[query]
            route == SelectRoute(mode, scored)
        IN  /\ ButtonRunPossible
            /\ stats' = SessionStatistics(queries)
            /\ analysis' = scored
            /\ result' = NoneVal
            /\ last' = [op |-> "stopped", query |-> query, mode |-> mode,
                        route |-> route, requests |-> <<>>, discarded |-> 0,
                        steps |-> StoppedSteps(query, "route", <<>>)]
            /\ UNCHANGED <<queries, total_cost, auto_idx, arg, ret>>

\* a script run with a button pressed that is stopped when the backend call
\* has returned: the result is there, nothing is appended and no error is shown
StoppedAfterDispatch ==
    \E query \in SessionQueries \ {""}, mode \in Modes :
        LET scored == AnalysisOf[query]
            route == SelectRoute(mode, scored)
        IN  \E d \in DispatchesOf(route) :
                LET call == Dispatch(query, route, d) IN
                /\ ButtonRunPossible
                /\ route = "local" => d.reply \in LocalRepliesFor(d.model)
                /\ call.returned
                /\ stats' = SessionStatistics(queries)
                /\ analysis' = scored
                /\ result' = call.value
                /\ last' = [op |-> "stopped", query |-> query, mode |-> mode,
                            route |-> route,
                            requests |-> BackendRequests(route, d),
                            discarded |-> 0,
                            steps |-> StoppedSteps(query, "dispatch",
                                                   BackendRequests(route, d))]
                /\ UNCHANGED <<queries, total_cost, auto_idx, arg, ret>>

RunStopped == StoppedBeforeProcessing \/ StoppedBeforeDispatch \/ StoppedAfterDispatch

Next == Rerun \/ ClearHistory \/ Submit \/ RunStopped

Spec == Init /\ [][Next]_vars

-----------------------------------------------------------------------------
(* Unit level: one call of one function on inputs drawn from bounded sets *)

RECURSIVE Repeat(_, _)
Repeat(s, n) == IF n = 0 THEN "" ELSE s \o Repeat(s, n - 1)

\* PadWords words
Pad == Repeat("w ", PadWords)

\* the pieces queries are made of
Fragments ==
    {"What is ", "who is ", "?", "??",
     "Analyze deeply ", "comprehensive analysis ", "Compare and contrast ",
     "Critically evaluate multiple complex examples ", "step by step ",
     "explain ", "VARIOUS\fCAFÉ ", Pad}

\* the concatenations of at most n fragments
RECURSIVE QueriesOf(_)
QueriesOf(n) ==
    IF n = 0 THEN {""}
    ELSE LET shorter == QueriesOf(n - 1)
         IN  shorter \cup {q \o f : q \in shorter, f \in Fragments}

Queries == QueriesOf(MaxParts)

TokenCounts == {0, 1000, 2500}

ModelKeys == DOMAIN CLOUD_MODELS \cup InstalledModels \cup {"Gemini Pro"}

UnitInputs ==
    {[fn |-> "analyze_query_complexity", query |-> q] : q \in Queries}
    \cup {[fn |-> "estimate_tokens", text |-> q] : q \in SessionQueries}
    \cup {[fn |-> "get_pricing", model_key |-> m] : m \in ModelKeys}
    \cup {[fn |-> "calculate_cost", input_tokens |-> i, output_tokens |-> o,
           model |-> m] : i \in TokenCounts, o \in TokenCounts, m \in ModelKeys}
    \cup {[fn |-> "local_inference", query |-> q, model |-> m, reply |-> r,
           elapsed |-> e] :
            q \in SessionQueries, m \in InstalledModels \cup {"No models found"},
            r \in LocalReplies, e \in ElapsedValues}
    \cup {[fn |-> "cloud_inference", query |-> q, cloud_model_key |-> m,
           reply |-> r, elapsed |-> e] :
            q \in SessionQueries, m \in DOMAIN CLOUD_MODELS \cup {"Gemini Pro"},
            r \in CloudReplies, e \in ElapsedValues}
    \cup {[fn |-> "get_available_local_models", run |-> c] : c \in CatalogRuns}

CallAnalyze ==
    /\ arg.fn = "analyze_query_complexity" /\ ret = NoneVal
    /\ ret' = Returned(analyze_query_complexity(arg.query))
    /\ UNCHANGED <<queries, total_cost, stats, analysis, result, last, auto_idx, arg>>

CallEstimateTokens ==
    /\ arg.fn = "estimate_tokens" /\ ret = NoneVal
    /\ ret' = Returned(estimate_tokens(arg.text))
    /\ UNCHANGED <<queries, total_cost, stats, analysis, result, last, auto_idx, arg>>

CallGetPricing ==
    /\ arg.fn = "get_pricing" /\ ret = NoneVal
    /\ ret' = Returned(get_pricing(arg.model_key))
    /\ UNCHANGED <<queries, total_cost, stats, analysis, result, last, auto_idx, arg>>

CallCalculateCost ==
    /\ arg.fn = "calculate_cost" /\ ret = NoneVal
    /\ ret' = calculate_cost(arg.input_tokens, arg.output_tokens, arg.model)
    /\ UNCHANGED <<queries, total_cost, stats, analysis, result, last, auto_idx, arg>>

CallLocalInference ==
    /\ arg.fn = "local_inference" /\ ret = NoneVal
    /\ ret' = local_inference(arg.query, arg.model, arg.reply, arg.elapsed)
    /\ UNCHANGED <<queries, total_cost, stats, analysis, result, last, auto_idx, arg>>

CallCloudInference ==
    /\ arg.fn = "cloud_inference" /\ ret = NoneVal
    /\ ret' = cloud_inference(arg.query, arg.cloud_model_key, arg.reply, arg.elapsed)
    /\ UNCHANGED <<queries, total_cost, stats, analysis, result, last, auto_idx, arg>>

CallGetAvailableLocalModels ==
    /\ arg.fn = "get_available_local_models" /\ ret = NoneVal
    /\ ret' = get_available_local_models(arg.run)
    /\ UNCHANGED <<queries, total_cost, stats, analysis, result, last, auto_idx, arg>>

UnitInit ==
    /\ queries = <<>>
    /\ total_cost = ZeroTotalCost
    /\ stats = SessionStatistics(<<>>)
    /\ analysis = NoneVal
    /\ result = NoneVal
    /\ last = [op |-> "start", query |-> "", mode |-> "none", route |-> "none",
               requests |-> <<>>, discarded |-> 0, steps |-> <<>>]
    /\ auto_idx = {}
    /\ arg \in UnitInputs
    /\ ret = NoneVal

UnitNext ==
    \/ CallAnalyze
    \/ CallEstimateTokens
    \/ CallGetPricing
    \/ CallCalculateCost
    \/ CallLocalInference
    \/ CallCloudInference
    \/ CallGetAvailableLocalModels

UnitSpec == UnitInit /\ [][UnitNext]_vars

-----------------------------------------------------------------------------
(* Properties of the scorer, checked under UnitSpec *)

Analyzed == arg.fn = "analyze_query_complexity" /\ ret # NoneVal

\* C1: for every query the score returned by analyze_query_complexity lies in
\* [0, 1] (0..100 hundredths): a running sum above 1 is returned as 1, a
\* negative running sum as 0, and any other sum unchanged.
C1_ScoreInUnitInterval ==
    Analyzed =>
        /\ ret.returned
        /\ LET raw == RawScore(arg.query)
               score == ret.value.score
           IN  /\ score \in 0..100
               /\ raw > 100 => score = 100
               /\ raw < 0 => score = 0
               /\ raw \in 0..100 => score = raw

\* a query whose running sum exceeds 1 was analyzed and its score is 1
C1_Witness ==
    /\ Analyzed
    /\ RawScore(arg.query) > 100
    /\ ret.value.score = 100

\* C2: for every query the returned threshold is 0.60 and the returned route
\* is cloud exactly when the returned (clamped) score is at least 0.60, so the
\* route taken from the unclamped sum agrees with the one the returned score
\* implies.
C2_RouteMatchesReturnedScore ==
    Analyzed =>
        /\ ret.returned
        /\ ret.value.threshold = 60
        /\ ret.value.route \in {"local", "cloud"}
        /\ ret.value.route = "cloud" <=> ret.value.score >= 60

\* a query was routed to the cloud on a running sum that the clamp changed
C2_Witness ==
    /\ Analyzed
    /\ ret.value.route = "cloud"
    /\ RawScore(arg.query) # ret.value.score

\* C10: the empty query is analyzed to score 0, route local and no factors.
C10_EmptyQuery ==
    (Analyzed /\ arg.query = "") =>
        ret = Returned([score |-> 0, factors |-> <<>>, route |-> "local",
                        threshold |-> 60])

\* the empty query was analyzed
C10_Witness ==
    /\ Analyzed
    /\ arg.query = ""
    /\ WordCount(arg.query) = 0
    /\ ret.returned

-----------------------------------------------------------------------------
(* Properties of the cost helper and the inference wrappers, under UnitSpec *)

Dispatched == arg.fn \in {"local_inference", "cloud_inference"} /\ ret # NoneVal

\* C4: local_inference and cloud_inference never raise: whatever the backend
\* does (reply, fault, malformed reply) and whatever the model key, a result is
\* returned, and it carries either success with response text, latency, token
\* counts and cost and no error, or failure with an error message and no
\* response text, latency, token counts or cost.
C4_DispatchAlwaysReturnsResult ==
    Dispatched =>
        /\ ret.returned
        /\ LET r == ret.value IN
           IF r.success
           THEN /\ {"response", "latency", "input_tokens", "output_tokens", "cost"}
                        \subseteq DOMAIN r
                /\ "error" \notin DOMAIN r
           ELSE /\ "error" \in DOMAIN r
                /\ DOMAIN r \cap {"response", "latency", "input_tokens",
                                  "output_tokens", "cost", "tokens_per_sec"} = {}

\* a fault raised after the backend had replied was turned into a failure result
C4_Witness ==
    /\ Dispatched
    /\ arg.reply.kind = "malformed"
    /\ ret.returned
    /\ ~ret.value.success

\* C8: a local dispatch whose backend replied and whose measured elapsed time
\* is 0 or less yields success with the response text and no tokens-per-second
\* value.
C8_ZeroElapsedKeepsResponse ==
    (Dispatched /\ arg.fn = "local_inference" /\ arg.reply.kind = "ok"
        /\ arg.elapsed <= 0) =>
        /\ ret.returned
        /\ ret.value.success
        /\ "response" \in DOMAIN ret.value
        /\ ret.value.response = arg.reply.content
        /\ "tokens_per_sec" \notin DOMAIN ret.value

\* C9: calculate_cost returns input_tokens * priceIn / 1e6 + output_tokens *
\* priceOut / 1e6 without raising for every model key; it is 0 for zero tokens
\* and for every model that is not a priced cloud model.
C9_CalculateCostTotal ==
    (arg.fn = "calculate_cost" /\ ret # NoneVal) =>
        /\ ret.returned
        /\ ret.value = arg.input_tokens * get_pricing(arg.model).input
                       + arg.output_tokens * get_pricing(arg.model).output
        /\ (arg.input_tokens = 0 /\ arg.output_tokens = 0) => ret.value = 0
        /\ arg.model \notin DOMAIN CLOUD_MODELS => ret.value = 0

-----------------------------------------------------------------------------
(* Properties of the session, checked under Spec *)

\* C3: a submission whose dispatch result has success = false leaves the
\* ledger as it was and hands the invoker a result with success = false and a
\* non-empty error message.
C3_FailedDispatchNoEntryAndMessage ==
    [][(last'.op = "submit" /\ ~result'.success) =>
            /\ queries' = queries
            /\ "error" \in DOMAIN result'
            /\ result'.error # ""]_vars

\* the figures among the three counts and the total cost that a statistics
\* record holds are all 0
ReportsZero(s) ==
    \A f \in DOMAIN s \cap {"total_queries", "local_queries", "cloud_queries",
                             "total_cost"} : s[f] = 0

\* C5: after any number of appended entries, Clear History empties the ledger
\* in one step (a step that shortens the ledger empties it, so no state holds a
\* part of the discarded entries), and the statistics read after the clear
\* report 0 queries, 0 local, 0 cloud and a total cost of 0: the script run that
\* st.rerun() starts computes all four figures from the emptied ledger, and so
\* does every run that reads statistics while the ledger is empty.
C5_ClearEmptiesAtOnce ==
    [][/\ (last'.op = "clear" \/ Len(queries') < Len(queries)) => queries' = <<>>
       /\ queries = <<>> => ReportsZero(stats')
       /\ (last.op = "clear" /\ last'.op = "rerun") =>
              /\ queries = <<>>
              /\ {"total_queries", "local_queries", "cloud_queries", "total_cost"}
                     \subseteq DOMAIN stats'
              /\ stats'.total_queries = 0
              /\ stats'.local_queries = 0
              /\ stats'.cloud_queries = 0
              /\ stats'.total_cost = 0]_vars

\* the script run started by a Clear History that discarded a ledger of two or
\* more entries has computed the statistics of the emptied ledger
C5_Witness ==
    /\ last.op = "rerun"
    /\ last.discarded >= 2
    /\ queries = <<>>
    /\ stats.total_queries = 0
    /\ stats.local_queries = 0
    /\ stats.cloud_queries = 0
    /\ stats.total_cost = 0

\* C6: every ledger entry carries the scorer's own score of its query, which
\* lies in [0, 1]; every entry appended by an Auto Route run has the scorer's
\* route, which is cloud exactly when that score is at least 0.60; and the
\* analysis of a run is the scorer's output for its query whichever button
\* was pressed.
C6_EntriesKeepScorerOutput ==
    /\ \A i \in 1..Len(queries) :
          LET e == queries[i]
              scored == analyze_query_complexity(e.query)
          IN  /\ e.complexity_score \in 0..100
              /\ e.complexity_score = scored.score
              /\ e.route \in {"local", "cloud"}
              /\ i \in auto_idx =>
                    /\ e.route = scored.route
                    /\ e.route = "cloud" <=> e.complexity_score >= 60
    /\ last.op = "submit" =>
          /\ analysis = analyze_query_complexity(last.query)
          /\ last.mode = "force_local" => last.route = "local"
          /\ last.mode = "force_cloud" => last.route = "cloud"
          /\ (result.success /\ queries # <<>>) =>
                queries[Len(queries)].route = last.route

\* the ledger holds an auto-routed cloud entry and an entry whose forced route
\* differs from the scorer's
C6_Witness ==
    /\ \E i \in auto_idx : queries[i].route = "cloud"
    /\ \E j \in (1..Len(queries)) \ auto_idx :
          queries[j].route # analyze_query_complexity(queries[j].query).route

\* the sum of the costs of a ledger, taken from its end
RECURSIVE LedgerCost(_)
LedgerCost(ledger) ==
    IF ledger = <<>> THEN 0
    ELSE ledger[Len(ledger)].cost + LedgerCost(SubSeq(ledger, 1, Len(ledger) - 1))

LocalPositions(ledger) == {i \in 1..Len(ledger) : ledger[i].route = "local"}

\* the counts and the total cost are those of the ledger
CountsAggregate(s, ledger) ==
    /\ s.total_queries = Len(ledger)
    /\ s.local_queries = Cardinality(LocalPositions(ledger))
    /\ s.cloud_queries = Len(ledger) - Cardinality(LocalPositions(ledger))
    /\ s.total_cost = LedgerCost(ledger)

\* the savings figures are those of the ledger (0.005 USD is 500000 units)
SavingsAggregate(s, ledger) ==
    /\ {"savings", "savings_pct"} \subseteq DOMAIN s
    /\ s.savings = Len(ledger) * 500000 - LedgerCost(ledger)
    /\ s.savings_pct = IF Len(ledger) * 500000 > 0
                       THEN [num |-> (Len(ledger) * 500000 - LedgerCost(ledger)) * 100,
                             den |-> Len(ledger) * 500000]
                       ELSE [num |-> 0, den |-> 1]

\* the script runs that go through the whole statistics block
WholeRuns == {"rerun", "submit", "clear"}

\* C7 as stated: the statistics a script run reads are the aggregate of the
\* ledger they were read from, with savings and a savings percentage of 0 when
\* the ledger is empty.
C7_StatsAggregateWithZeroSavings ==
    [][last'.op \in WholeRuns =>
          CountsAggregate(stats', queries) /\ SavingsAggregate(stats', queries)]_vars

\* C7 (amended): every figure a script run computes is the aggregate of the
\* ledger as it is when the run reads it, which is before the run's own append
\* or clear: the three counts, then the total cost, then, when the ledger is not
\* empty, the savings and the savings percentage. On an empty ledger no savings
\* figure is computed, and a run that is stopped inside the statistics block
\* has computed only the figures before the stop. A run that is not stopped
\* computes the counts, the total cost and, on a ledger that is not empty, the
\* savings figures.
C7_StatsAggregateAtRead ==
    [][LET s == stats'
           has(f) == f \in DOMAIN s
           counts == {"total_queries", "local_queries", "cloud_queries"}
       IN  /\ \A f \in counts \cup {"total_cost", "savings", "savings_pct"} :
                  has(f) => counts \subseteq DOMAIN s
           /\ has("total_queries") =>
                  /\ s.total_queries = Len(queries)
                  /\ s.local_queries = Cardinality(LocalPositions(queries))
                  /\ s.cloud_queries = Len(queries) - Cardinality(LocalPositions(queries))
           /\ (has("savings") \/ has("savings_pct")) => has("total_cost")
           /\ has("total_cost") => s.total_cost = LedgerCost(queries)
           /\ (has("savings") \/ has("savings_pct")) =>
                  Len(queries) > 0 /\ SavingsAggregate(s, queries)
           /\ last'.op \in WholeRuns =>
                  /\ CountsAggregate(s, queries)
                  /\ IF Len(queries) > 0 THEN SavingsAggregate(s, queries)
                     ELSE ~has("savings") /\ ~has("savings_pct")]_vars

\* the statistics of a ledger with a local and a paid cloud entry were computed
C7_Witness ==
    /\ last.op \in WholeRuns
    /\ {"total_queries", "total_cost", "savings"} \subseteq DOMAIN stats
    /\ stats.total_queries = 2
    /\ stats.local_queries = 1
    /\ stats.cloud_queries = 1
    /\ stats.total_cost > 0
    /\ "savings_pct" \in DOMAIN stats
    /\ Len(queries) = 2

-----------------------------------------------------------------------------
(* The ledger as a log, checked under Spec *)

\* C11: the ledger is append-only between clears. Every step leaves it
\* unchanged, replaces it by the empty sequence, or extends it by exactly one
\* entry at the end, the entries already there staying as they were and in
\* their order; a run that completes a successful dispatch appends exactly one
\* entry, which carries the dispatched route and the model, latency and cost
\* of the result; only a successful dispatch appends (a run stopped on its
\* way appends nothing) and only Clear History removes.
C11_LedgerAppendOnly ==
    [][/\ \/ queries' = queries
          \/ queries' = <<>>
          \/ /\ Len(queries') = Len(queries) + 1
             /\ SubSeq(queries', 1, Len(queries)) = queries
       /\ (last'.op = "submit" /\ result'.success) =>
             /\ Len(queries') = Len(queries) + 1
             /\ SubSeq(queries', 1, Len(queries)) = queries
             /\ queries'[Len(queries')].route = last'.route
             /\ queries'[Len(queries')].query = last'.query
             /\ queries'[Len(queries')].model = result'.model
             /\ queries'[Len(queries')].latency = result'.latency
             /\ queries'[Len(queries')].cost = result'.cost
       /\ Len(queries') > Len(queries) => (last'.op = "submit" /\ result'.success)
       /\ (queries' # queries /\ Len(queries') <= Len(queries)) => last'.op = "clear"
      ]_vars

\* a successful dispatch has just appended a second, different entry behind
\* the first
C11_Witness ==
    /\ last.op = "submit"
    /\ result.success
    /\ Len(queries) = 2
    /\ queries[1] # queries[2]
    /\ queries[2].route = last.route
    /\ queries[2].model = result.model

-----------------------------------------------------------------------------
(* The dispatch of a submitted query, checked under Spec *)

\* the positions of a step name in the steps of a script run
StepPositions(steps, name) == {i \in 1..Len(steps) : steps[i] = name}

\* what the dispatch of a query on the backend of a route can come to: the
\* request made (none when the cloud client cannot be constructed) and the
\* result the wrapper of that backend returns for it
SingleRequestOutcomes ==
    {[route |-> "local", query |-> q,
      requests |-> << [backend |-> "ollama", model |-> d.model] >>,
      result |-> local_inference(q, d.model, d.reply, d.elapsed).value] :
        q \in SessionQueries, d \in LocalDispatches}
    \cup
    {[route |-> "cloud", query |-> q,
      requests |-> IF d.reply.kind = "init_raise" THEN <<>>
                   ELSE << [backend |-> d.backend, model |-> d.model] >>,
      result |-> cloud_inference(q, d.model, d.reply, d.elapsed).value] :
        q \in SessionQueries, d \in CloudDispatches}

\* C12: a submitted query causes at most one backend request, sent to the
\* backend of the chosen route only (ollama for local, the provider of the
\* selected cloud model for cloud), after the query was scored and before any
\* ledger append, in a run that completes and in a run that is stopped on its
\* way; the result handed to the invoker is the result of that one dispatch
\* on that one backend, so a failure is neither retried nor replaced by a
\* result of the other backend, and it leaves the ledger as it was.
C12_OneRequestOnChosenRoute ==
    [][(last'.op \in {"submit", "stopped"} /\ last'.route # "none") =>
        LET reqs == last'.requests
            route == last'.route
            steps == last'.steps
        IN  /\ Len(reqs) <= 1
            /\ Cardinality(StepPositions(steps, "request")) = Len(reqs)
            /\ \A i \in 1..Len(reqs) :
                  IF route = "local"
                  THEN /\ reqs[i].backend = "ollama"
                       /\ reqs[i].model \notin DOMAIN CLOUD_MODELS
                  ELSE /\ reqs[i].model \in DOMAIN CLOUD_MODELS
                       /\ reqs[i].backend = CLOUD_MODELS[reqs[i].model].provider
            /\ \A i \in StepPositions(steps, "request") :
                  /\ \E j \in StepPositions(steps, "score") : j < i
                  /\ \A j \in StepPositions(steps, "append") : i < j
            /\ analysis' = AnalysisOf[last'.query]
            /\ IF result' = NoneVal
               THEN last'.op = "stopped" /\ reqs = <<>> /\ queries' = queries
               ELSE [route |-> route, query |-> last'.query,
                     requests |-> reqs, result |-> result'] \in SingleRequestOutcomes
            /\ (result' # NoneVal /\ ~result'.success) =>
                  /\ queries' = queries
                  /\ StepPositions(steps, "append") = {}
                  /\ DOMAIN result' = {"success", "error", "model"}
                  /\ \A i \in 1..Len(reqs) : result'.model = reqs[i].model
      ]_vars

\* an Auto Route run sent one request to the provider of the selected cloud
\* model, the request failed, and the ledger kept its entry
C12_Witness ==
    /\ last.op = "submit"
    /\ last.mode = "auto"
    /\ last.route = "cloud"
    /\ last.requests = << [backend |-> "anthropic", model |-> "Claude Sonnet 4"] >>
    /\ last.steps = << "score", "score", "request", "error" >>
    /\ ~result.success
    /\ Len(queries) >= 1

-----------------------------------------------------------------------------
(* The weighted phrase table, checked under UnitSpec *)

\* the phrase occurs in the text as a literal substring
OccursIn(phrase, text) ==
    \E i \in 1..(Len(text) - Len(phrase) + 1) :
        SubSeq(text, i, i + Len(phrase) - 1) = phrase

\* the entries of the phrase table whose phrase occurs in the lower-cased query
MatchedPhrases(query) ==
    LET text == Lower(query)
    IN  {k \in 1..Len(complex_keywords) : OccursIn(complex_keywords[k].keyword, text)}

RECURSIVE WeightSum(_)
WeightSum(entries) ==
    IF entries = {} THEN 0
    ELSE LET k == CHOOSE e \in entries : TRUE
         IN  complex_keywords[k].weight + WeightSum(entries \ {k})

\* the length, question-mark, example/step and simple-question contributions
OtherContributions(query) ==
    LET zero == [score |-> 0, factors |-> <<>>]
        text == Lower(query)
    IN  LengthRule(zero, query).score + QuestionRule(zero, query).score
        + ExampleRule(zero, text).score + SimpleRule(zero, text).score

\* how many times a factor is in a factor list
FactorCount(factors, factor) ==
    Cardinality({i \in 1..Len(factors) : factors[i] = factor})

PhraseEntry(phrase) ==
    CHOOSE k \in 1..Len(complex_keywords) : complex_keywords[k].keyword = phrase

\* C13: each phrase of the weighted phrase table appends its factor (once) if
\* and only if it occurs as a literal substring of the lower-cased query,
\* whatever the other phrases do; the score before the clamp is the sum of the
\* weights of all matched phrases plus the length, question-mark, example/step
\* and simple-question contributions, and the returned score is its clamp; a
\* query with "analyze deeply" gets 0.30 and the 0.15 of "analyze", one with
\* "compare and contrast" gets 0.25 and the 0.15 of "compare".
C13_PhraseWeightsAddUp ==
    Analyzed =>
        LET query == arg.query
            matched == MatchedPhrases(query)
            expected == WeightSum(matched) + OtherContributions(query)
        IN  /\ \A k \in 1..Len(complex_keywords) :
                  FactorCount(ret.value.factors,
                              "Complex keyword: '" \o complex_keywords[k].keyword \o "'")
                    = IF k \in matched THEN 1 ELSE 0
            /\ RawScore(query) = expected
            /\ ret.value.score = Min(Max(expected, 0), 100)
            /\ PhraseEntry("analyze deeply") \in matched =>
                  /\ PhraseEntry("analyze") \in matched
                  /\ expected - OtherContributions(query) >= 30 + 15
            /\ PhraseEntry("compare and contrast") \in matched =>
                  /\ PhraseEntry("compare") \in matched
                  /\ expected - OtherContributions(query) >= 25 + 15

\* a query with both overlapping pairs was scored 0.30 + 0.15 + 0.25 + 0.15
C13_Witness ==
    /\ Analyzed
    /\ arg.query = "Analyze deeply Compare and contrast "
    /\ ret.value.score = 85
    /\ Len(ret.value.factors) = 4
    /\ ret.value.route = "cloud"

-----------------------------------------------------------------------------
(* The local model catalog and the dispatch, checked under Spec *)

\* the values get_available_local_models returns in place of model names
IsPlaceholder(model) ==
    \/ model \in {"No models found", "Error fetching models"}
    \/ Len(model) >= 7 /\ SubSeq(model, 1, 7) = "Error: "

\* C14: when the catalog is empty or fails, the value produced for that case
\* is not used as a local model key: no request of a script run goes to the
\* local backend with a placeholder as its model.
C14_NoRequestWithPlaceholder ==
    \A i \in 1..Len(last.requests) :
        last.requests[i].backend = "ollama" => ~IsPlaceholder(last.requests[i].model)

-----------------------------------------------------------------------------
(* The cost of the ledger, checked under Spec *)

\* the entries of a ledger that went to the cloud
CloudEntries(ledger) ==
    LET IsCloud(e) == e.route = "cloud" IN SelectSeq(ledger, IsCloud)

\* C15: in every reachable state every ledger entry whose route is local has
\* cost 0, whether the scorer chose the route or a button forced it, and no
\* entry has a negative cost; so the total cost of the ledger is the sum of
\* the costs of its cloud entries and is never negative, and neither is the
\* total cost the statistics show.
C15_LocalEntriesAreFree ==
    /\ \A i \in 1..Len(queries) :
          /\ queries[i].route = "local" => queries[i].cost = 0
          /\ queries[i].cost >= 0
    /\ SumCost(queries, 1) = LedgerCost(CloudEntries(queries))
    /\ SumCost(queries, 1) >= 0
    /\ "total_cost" \in DOMAIN stats => stats.total_cost >= 0

\* the ledger holds a forced local entry, which is free, and a cloud entry
\* that was paid for
C15_Witness ==
    /\ \E i \in (1..Len(queries)) \ auto_idx :
          /\ queries[i].route = "local"
          /\ analyze_query_complexity(queries[i].query).route = "cloud"
          /\ queries[i].cost = 0
    /\ \E j \in 1..Len(queries) : queries[j].route = "cloud" /\ queries[j].cost > 0
    /\ SumCost(queries, 1) > 0

====
